---- MODULE Spec2Model ----
(***************************************************************************)
(* A model of the file organizer: FileOrganizer of                         *)
(* src/file_organizer/core.py (impl = "core") and the FileOrganizer of     *)
(* organizer.py / organizer_old.py (impl = "legacy"), which share the      *)
(* walk but differ in the deduplicating move.                              *)
(*                                                                         *)
(* The filesystem is the source tree (src), the destination tree (dest,    *)
(* folders, destKind); a run is OrganizeStart, one ProcessFile per file    *)
(* the walk yields, then LogSummary.                                       *)
(***************************************************************************)
EXTENDS Integers, Sequences, FiniteSets, TLC

\* ---------------------------------------------------------------- bounds
\* Most files in the source tree.
MaxFiles == 2

\* Most calls of organize on one FileOrganizer.
MaxRuns == 2

\* Most lines standard input holds before it ends.
MaxInputs == 3

\* The attribute of an object that was never constructed.
Unset == 0 - 1

Bases == {"a"}
Exts == {"", ".PDF", ".xyz"}
Dirs == {"", "sub"}
Contents == {"x", "y"}

\* ----------------------------------------------------------------- names
\* A file name is its stem (a base and the "(k)" suffixes appended to it) and
\* its suffix, as pathlib splits it.
Name(b, e) == [base |-> b, sfx |-> <<>>, ext |-> e]

\* f"{base_name}({counter}){extension}"
SuffixedName(n, counter) == [n EXCEPT !.sfx = Append(@, counter)]

\* str.lower() on the suffixes of the model.
Lower(e) == CASE e = ".TXT" -> ".txt"
              [] e = ".PDF" -> ".pdf"
              [] e = ".XYZ" -> ".xyz"
              [] OTHER -> e

DEFAULT_EXTENSION_MAP == (".txt" :> "TextFiles") @@ (".pdf" :> "Documents")

SrcNames == {Name(b, e) : b \in Bases, e \in Exts}
SrcPaths == Dirs \X SrcNames

\* hashlib's sha256 hex digest of a content: distinct contents, distinct digests.
Sha256(c) == <<"sha256", c>>

VARIABLES
    impl,           \* which FileOrganizer: "core" | "legacy"
    phase,          \* "new" | "rejected" | "ready" | "running" | "done" | "aborted"
    srcKind,        \* source_dir on disk: "missing" | "file" | "dir"
    destKind,       \* dest_dir on disk: "missing" | "file" | "dir"
    src,            \* source tree: <<dir, name>> -> content
    dest,           \* destination tree: <<category, name>> -> content
    folders,        \* category folders that exist under dest_dir
    extension_map,  \* lowercase suffix -> category folder name
    dry_run,
    cfg_loaded,     \* legacy: __init__ loaded the configuration
    files_moved,    \* files_moved / files_successfully_moved_or_renamed
    files_skipped,  \* files_skipped / skipped_identical_duplicates
    total_scanned,
    files_ignored,     \* legacy: files_ignored_by_rule
    files_considered,  \* legacy: files_considered_for_processing
    todo,           \* files the walk has still to yield
    outcome,        \* per source path, the log event of its processing
    last,           \* the last processed path and the calls made for it
    summary,        \* the logged summaries, one per finished run
    start,          \* the filesystem when the run started
    resolver,       \* a call of _get_unique_destination_path, step by step
    shadow,         \* in a dry run: the same files, in the same order, moved
                    \* for real with every call succeeding
    classified,     \* the classifier's answers: file name -> category or <<>>
    walk,           \* rglob('*') over the directories of the source tree
    entry,          \* the function the session calls: "main" (cli.py),
                    \* "organize" (organizer_old.py), or a flow of cli.py
    pc,             \* where the session is
    config_file,    \* the configuration file on disk
    defaults,       \* the module's DEFAULT_EXTENSION_MAP dictionary
    aliased,        \* extension_map is that very dictionary, not a copy
    loaded,         \* <<the map the configuration loader returned>>
    map_changed,    \* map_was_changed / _map_changed_this_session
    answers,        \* lines read from standard input so far
    typed,          \* what input() last gave: <<the line>>, or <<>> (EOFError)
    events,         \* the calls and warnings of the session, in order
    pending,        \* unmapped extensions still to be asked about
    ext_to_modify   \* the extension the edit flow is asking a folder for

vars == <<impl, phase, srcKind, destKind, src, dest, folders, extension_map,
          dry_run, cfg_loaded, files_moved, files_skipped, total_scanned,
          files_ignored, files_considered, todo, outcome, last, summary, start,
          resolver, shadow, classified, walk, entry, pc, config_file, defaults,
          aliased, loaded, map_changed, answers, typed, events, pending,
          ext_to_modify>>

\* The state of the organizer and of the filesystem it works on.
onRun == <<impl, phase, srcKind, destKind, src, dest, folders, extension_map,
           dry_run, cfg_loaded, files_moved, files_skipped, total_scanned,
           files_ignored, files_considered, todo, outcome, last, summary,
           start, shadow>>

\* What a run of organize, a call of the resolver and a call of the
\* classifier leave alone.
onSession == <<entry, pc, config_file, defaults, aliased, loaded, map_changed,
               answers, typed, events, pending, ext_to_modify>>
offRun == <<resolver, classified, walk, onSession>>
offResolver == <<onRun, classified, walk, onSession>>
offClassify == <<onRun, resolver, walk, onSession>>

\* ------------------------------------------------------------ classifier
\* A slip in the classifier: an unknown suffix falls back to a default folder.
ClassifyCore_DefaultFolder(name, map) ==
    LET extension == Lower(name.ext) IN
    IF extension = "" THEN <<>>
    ELSE IF extension \notin DOMAIN map THEN <<"Others">>
    ELSE <<map[extension]>>

\* core.py _process_file: the category, or <<>> to ignore.
ClassifyCore(name, map) ==
    LET extension == Lower(name.ext) IN
    IF extension = "" \/ extension \notin DOMAIN map
    THEN <<>>
    ELSE <<map[extension]>>

\* organizer.py _get_destination_folder_or_ignore.
ClassifyLegacy(name, map) ==
    LET extension == Lower(name.ext) IN
    IF extension = "" THEN <<>>
    ELSE IF extension \notin DOMAIN map THEN <<>>
    ELSE IF map[extension] = "" THEN <<>>
    ELSE <<map[extension]>>

Classify(name, map) ==
    IF impl = "core" THEN ClassifyCore(name, map) ELSE ClassifyLegacy(name, map)

\* Path.exists() of dest_dir/category/name.
DestExists(cat, name) == <<cat, name>> \in DOMAIN dest

\* Path.is_dir() / Path.exists() of a root path.
IsDir(kind) == kind = "dir"
Exists(kind) == kind # "missing"

\* --------------------------------------------------------------- resolver
\* organizer.py: "if counter > 1000" in _get_unique_destination_path.
MAX_ATTEMPTS == 1000

\* The loop "while potential_dest_path.exists()" over the tree d, from the
\* suffix counter on: the suffix k of the first name stem(k)ext that d does
\* not hold. The names of d cannot fill the Cardinality(DOMAIN d) + 1
\* suffixes from counter on, so the first free one is among them. (The loop
\* is written in closed form: a folder of MAX_ATTEMPTS names is beyond the
\* depth to which a recursive definition can be evaluated.)
FirstFree(d, cat, name, counter) ==
    LET free == {k \in counter..(counter + Cardinality(DOMAIN d)) :
                    <<cat, SuffixedName(name, k)>> \notin DOMAIN d}
    IN CHOOSE k \in free : \A j \in free : k <= j

\* core.py _get_unique_destination_path, the loop once the path exists.
ProbeCore(cat, name, counter) ==
    SuffixedName(name, FirstFree(dest, cat, name, counter))

\* A slip in the resolver: the colliding name is returned as it is.
UniquePathCore_NoProbe(cat, name) == name

UniquePathCore(cat, name) ==
    IF DestExists(cat, name) THEN ProbeCore(cat, name, 1) ELSE name

\* organizer.py _get_unique_destination_path, the loop once the path exists:
\* after MAX_ATTEMPTS suffixed names it falls back to the original name.
ProbeLegacy(cat, name, counter) ==
    LET k == FirstFree(dest, cat, name, counter) IN
    IF k > MAX_ATTEMPTS THEN name ELSE SuffixedName(name, k)

UniquePathLegacy(cat, name) ==
    IF DestExists(cat, name) THEN ProbeLegacy(cat, name, 1) ELSE name

\* No session: the organizer is driven directly, with the map it is given.
SessionIdle ==
    /\ entry = "none"
    /\ pc = "run"
    /\ config_file = [kind |-> "missing"]
    /\ defaults = DEFAULT_EXTENSION_MAP
    /\ aliased = FALSE
    /\ loaded = <<>>
    /\ map_changed = FALSE
    /\ answers = 0
    /\ typed = <<>>
    /\ events = <<>>
    /\ pending = <<>>
    /\ ext_to_modify = ""

\* The walk of a run whose order over the directories is left open.
WalkIdle == [nested |-> FALSE, listed |-> FALSE, stack |-> <<>>,
             todo_dest |-> {}, revisited |-> {}]

\* No call of the resolver is under way.
ResolverIdle == [pc |-> "idle"]

\* ------------------------------------------------------------ environment
\* What the filesystem answers to the calls made for one file: whether the
\* two digests can be computed, and how mkdir + shutil.move end: well, with
\* an OSError (shutil.Error is one) from either, or with another exception.
MoveOutcomes == {"ok", "mkdir_oserror", "move_oserror", "move_exception"}
IOs == [sh : BOOLEAN, dh : BOOLEAN, mv : MoveOutcomes]

NoCalls == [sh |-> "none", dh |-> "none", mv |-> "none"]
HashCalls(io) == [sh |-> IF io.sh THEN "ok" ELSE "fail",
                  dh |-> IF io.dh THEN "ok" ELSE "fail",
                  mv |-> "none"]

\* An answer to a call that is not made is left at success, so that each
\* course of the calls made is drawn once.
Canonical(io, calls) ==
    /\ calls.sh = "none" => io.sh
    /\ calls.dh = "none" => io.dh
    /\ calls.mv = "none" => io.mv = "ok"

\* _calculate_file_hash: <<digest>>, or <<>> (None) when the read fails.
CalculateFileHash(content, ok) == IF ok THEN <<Sha256(content)>> ELSE <<>>

\* The effect of processing one file: the filesystem and counters after it,
\* its log event, whether an exception left the method, the calls made.
Effect(s, d, f, k, m, sk, tag, raised, calls) ==
    [src |-> s, dest |-> d, folders |-> f, destKind |-> k, moved |-> m,
     skipped |-> sk, tag |-> tag, raised |-> raised, calls |-> calls]

Untouched(m, sk, tag, calls) ==
    Effect(src, dest, folders, destKind, m, sk, tag, FALSE, calls)

Remove(f, x) == [y \in DOMAIN f \ {x} |-> f[y]]

\* ------------------------------------------------------------ move engine
\* A slip in the move: the file is copied, and stays in the source tree.
TryMoveCore_Copies(p, cat, final, mv, calls) ==
    LET c == [calls EXCEPT !.mv = mv]
        made == folders \cup {cat}
    IN IF mv = "ok"
       THEN Effect(src, (<<cat, final>> :> src[p]) @@ dest, made, "dir",
                   files_moved + 1, files_skipped,
                   IF final # p[2] THEN "renamed" ELSE "moved", FALSE, c)
       ELSE Effect(src, dest, folders, destKind, files_moved,
                   files_skipped + 1, "move_error", FALSE, c)

\* core.py _move_file_with_deduplication, lines 113-120: mkdir, shutil.move,
\* and "except (shutil.Error, OSError)", which counts the file as skipped.
TryMoveCore(p, cat, final, mv, calls) ==
    LET c == [calls EXCEPT !.mv = mv]
        made == folders \cup {cat}
    IN CASE mv = "ok" ->
              Effect(Remove(src, p), (<<cat, final>> :> src[p]) @@ dest, made,
                     "dir", files_moved + 1, files_skipped,
                     IF final # p[2] THEN "renamed" ELSE "moved", FALSE, c)
         [] mv = "mkdir_oserror" ->
              Untouched(files_moved, files_skipped + 1, "move_error", c)
         [] mv = "move_oserror" ->
              Effect(src, dest, made, "dir", files_moved, files_skipped + 1,
                     "move_error", FALSE, c)
         [] OTHER ->
              Effect(src, dest, made, "dir", files_moved, files_skipped,
                     "exception", TRUE, c)

\* A slip in the skip branch: the source of an identical file is deleted.
SkipIdenticalCore_Unlink(p, calls) ==
    Effect(Remove(src, p), dest, folders, destKind, files_moved,
           files_skipped + 1, "skipped_identical", FALSE, calls)

\* core.py lines 99-102: the identical file is logged and counted, not moved.
SkipIdenticalCore(p, calls) ==
    Untouched(files_moved, files_skipped + 1, "skipped_identical", calls)

\* A slip in the dry-run branch: the flag is not consulted.
PlaceCore_IgnoresDryRun(p, cat, final, io, calls) ==
    TryMoveCore(p, cat, final, io.mv, calls)

\* core.py lines 107-120: report in a dry run, move otherwise.
PlaceCore(p, cat, final, io, calls) ==
    IF dry_run
    THEN Untouched(files_moved + 1, files_skipped,
                   IF final # p[2] THEN "dry_renamed" ELSE "dry_moved", calls)
    ELSE TryMoveCore(p, cat, final, io.mv, calls)

\* core.py _move_file_with_deduplication.
MoveFileCore(p, cat, io) ==
    LET name == p[2]
        exists == DestExists(cat, name)
        source_hash == CalculateFileHash(src[p], io.sh)
        dest_hash == IF exists
                     THEN CalculateFileHash(dest[<<cat, name>>], io.dh)
                     ELSE <<>>
        calls == IF exists THEN HashCalls(io) ELSE NoCalls
    IN IF exists /\ source_hash # <<>> /\ source_hash = dest_hash
       THEN SkipIdenticalCore(p, calls)
       ELSE PlaceCore(p, cat,
                      IF exists THEN UniquePathCore(cat, name) ELSE name,
                      io, calls)

\* organizer.py _move_file_with_deduplication, lines 340-357: mkdir,
\* shutil.move, and the three except clauses, none of which counts.
TryMoveLegacy(p, cat, final, mv, calls) ==
    LET c == [calls EXCEPT !.mv = mv]
        made == folders \cup {cat}
    IN CASE mv = "ok" ->
              Effect(Remove(src, p), (<<cat, final>> :> src[p]) @@ dest, made,
                     "dir", files_moved + 1, files_skipped,
                     IF final # p[2] THEN "renamed" ELSE "moved", FALSE, c)
         [] mv = "mkdir_oserror" ->
              Untouched(files_moved, files_skipped, "move_error", c)
         [] OTHER ->
              Effect(src, dest, made, "dir", files_moved, files_skipped,
                     "move_error", FALSE, c)

\* organizer.py _move_file_with_deduplication.
MoveFileLegacy(p, cat, io) ==
    LET name == p[2]
        exists == DestExists(cat, name)
    IN IF dry_run
       THEN Untouched(files_moved, files_skipped,
                      IF exists THEN "dry_exists" ELSE "dry_moved", NoCalls)
       ELSE IF exists
       THEN LET source_hash == CalculateFileHash(src[p], io.sh)
                dest_hash == CalculateFileHash(dest[<<cat, name>>], io.dh)
                calls == HashCalls(io)
            IN IF source_hash = <<>> \/ dest_hash = <<>>
               THEN Untouched(files_moved, files_skipped, "hash_error", calls)
               ELSE IF source_hash = dest_hash
               THEN Untouched(files_moved, files_skipped + 1,
                              "skipped_identical", calls)
               ELSE TryMoveLegacy(p, cat, UniquePathLegacy(cat, name), io.mv,
                                  calls)
       ELSE TryMoveLegacy(p, cat, name, io.mv, NoCalls)

\* _process_file (core.py) / the loop body of organize (organizer.py).
ProcessFileEffect(p, io) ==
    LET category == Classify(p[2], extension_map) IN
    IF category = <<>>
    THEN Untouched(files_moved, files_skipped, "ignored", NoCalls)
    ELSE IF impl = "core"
         THEN MoveFileCore(p, category[1], io)
         ELSE MoveFileLegacy(p, category[1], io)

\* ------------------------------------------------- the real run, in step
\* The destination tree d and the counts of a real run whose calls all
\* succeed, before its first file; tag is its decision for each file.
ShadowAt(d, paths) ==
    [dest |-> d, moved |-> 0, skipped |-> 0,
     tag |-> [q \in paths |-> "pending"], clean |-> TRUE]

\* None of the calls made for a file failed.
Succeeded(calls) ==
    /\ calls.sh \in {"none", "ok"}
    /\ calls.dh \in {"none", "ok"}
    /\ calls.mv \in {"none", "ok"}

\* _get_unique_destination_path over the tree d, the original name existing.
ProbeIn(d, cat, name, counter) ==
    LET k == FirstFree(d, cat, name, counter) IN
    IF impl = "legacy" /\ k > MAX_ATTEMPTS THEN name ELSE SuffixedName(name, k)

\* _move_file_with_deduplication in a real run, every call succeeding, on the
\* tree sh.dest: skip the identical file, rename the conflicting one, move.
RealStep(sh, p, content, ok) ==
    LET category == Classify(p[2], extension_map)
        name == p[2]
        done(d, m, k, t) ==
            [dest |-> d, moved |-> m, skipped |-> k,
             tag |-> [sh.tag EXCEPT ![p] = t], clean |-> sh.clean /\ ok]
    IN IF category = <<>>
       THEN done(sh.dest, sh.moved, sh.skipped, "ignored")
       ELSE LET at == <<category[1], name>> IN
            IF at \notin DOMAIN sh.dest
            THEN done((at :> content) @@ sh.dest, sh.moved + 1, sh.skipped,
                      "moved")
            ELSE IF Sha256(sh.dest[at]) = Sha256(content)
            THEN done(sh.dest, sh.moved, sh.skipped + 1, "skipped_identical")
            ELSE LET final == ProbeIn(sh.dest, category[1], name, 1) IN
                 done((<<category[1], final>> :> content) @@ sh.dest,
                      sh.moved + 1, sh.skipped,
                      IF final # name THEN "renamed" ELSE "moved")

\* ------------------------------------------------------------------- init
Kinds == {"missing", "file", "dir"}
ExtensionMaps == {DEFAULT_EXTENSION_MAP}

\* The trees of at most max files over the given paths.
Trees(paths, max) ==
    UNION {[S -> Contents] : S \in {T \in SUBSET paths : Cardinality(T) <= max}}

\* The source trees: a file whose suffix no map of the model knows, which is
\* never read, comes in one content only.
SrcTrees ==
    {t \in Trees(SrcPaths, MaxFiles) :
        \A q \in DOMAIN t :
            (\A m \in ExtensionMaps : Lower(q[2].ext) \notin DOMAIN m)
                => t[q] = "x"}

Mapped(map) == {n \in SrcNames : Lower(n.ext) \in DOMAIN map}
Categories(map) == {map[e] : e \in DOMAIN map}

\* The destination paths a run can meet: each mapped name, and its first
\* suffixed variant, in its category folder.
DestPaths(map) ==
    UNION {{<<map[Lower(n.ext)], n>>, <<map[Lower(n.ext)], SuffixedName(n, 1)>>}
           : n \in Mapped(map)}

Snapshot == [src |-> src, dest |-> dest, folders |-> folders,
             destKind |-> destKind]

Init ==
    /\ impl \in {"core", "legacy"}
    /\ phase = "new"
    /\ extension_map \in ExtensionMaps
    /\ dry_run \in BOOLEAN
    /\ srcKind \in Kinds
    /\ destKind \in Kinds
    /\ IF IsDir(srcKind) /\ destKind # "file"
       THEN /\ src \in SrcTrees
            /\ IF IsDir(destKind)
               THEN /\ dest \in Trees(DestPaths(extension_map), Cardinality(DestPaths(extension_map)))
                    /\ folders \in {F \in SUBSET Categories(extension_map) :
                                      {q[1] : q \in DOMAIN dest} \subseteq F}
               ELSE dest = <<>> /\ folders = {}
       ELSE src = <<>> /\ dest = <<>> /\ folders = {}
    /\ cfg_loaded = FALSE
    /\ files_moved = Unset
    /\ files_skipped = Unset
    /\ total_scanned = 0
    /\ files_ignored = 0
    /\ files_considered = 0
    /\ todo = {}
    /\ outcome = [q \in DOMAIN src |-> "pending"]
    /\ last = [path |-> <<>>, calls |-> NoCalls]
    /\ summary = <<>>
    /\ start = Snapshot
    /\ resolver = ResolverIdle
    /\ shadow = ShadowAt(dest, DOMAIN src)
    /\ classified = <<>>
    /\ walk = WalkIdle
    /\ SessionIdle

\* ---------------------------------------------------------------- actions
\* A slip in __init__: the destination is not checked.
Rejects_SourceOnly(source_kind, dest_kind) == ~IsDir(source_kind)

\* __init__: the two checks that raise ValueError.
Rejects(source_kind, dest_kind) ==
    \/ ~IsDir(source_kind)
    \/ Exists(dest_kind) /\ ~IsDir(dest_kind)

\* FileOrganizer(source_dir, dest_dir): ValueError, or the counters at 0
\* (and, in organizer_old.py, the configuration loaded after the checks).
Construct ==
    /\ phase = "new"
    /\ IF Rejects(srcKind, destKind)
       THEN /\ phase' = "rejected"
            /\ UNCHANGED <<files_moved, files_skipped, cfg_loaded>>
       ELSE /\ phase' = "ready"
            /\ files_moved' = 0
            /\ files_skipped' = 0
            /\ cfg_loaded' = (impl = "legacy")
    /\ UNCHANGED <<impl, srcKind, destKind, src, dest, folders, extension_map,
                   dry_run, total_scanned, files_ignored, files_considered,
                   todo, outcome, last, summary, start, shadow>>
    /\ UNCHANGED offRun

\* organize, up to the loop: the counters are reset and the walk begins.
OrganizeStart ==
    /\ phase = "ready"
    /\ phase' = "running"
    /\ files_moved' = 0
    /\ files_skipped' = 0
    /\ total_scanned' = 0
    /\ files_ignored' = 0
    /\ files_considered' = 0
    /\ todo' = DOMAIN src
    /\ outcome' = [q \in DOMAIN src |-> "pending"]
    /\ summary' = <<>>
    /\ start' = Snapshot
    /\ shadow' = ShadowAt(dest, DOMAIN src)
    /\ UNCHANGED <<impl, srcKind, destKind, src, dest, folders, extension_map,
                   dry_run, cfg_loaded, last>>
    /\ UNCHANGED offRun

\* One iteration of the loop over rglob('*'), for the file at p.
ProcessFile(p, io) ==
    /\ phase = "running"
    /\ p \in todo
    /\ todo' = todo \ {p}
    /\ IF p \in DOMAIN src
       THEN LET eff == ProcessFileEffect(p, io) IN
            /\ Canonical(io, eff.calls)
            /\ src' = eff.src
            /\ dest' = eff.dest
            /\ folders' = eff.folders
            /\ destKind' = eff.destKind
            /\ files_moved' = eff.moved
            /\ files_skipped' = eff.skipped
            /\ total_scanned' = total_scanned + 1
            /\ files_ignored' = IF impl = "legacy" /\ eff.tag = "ignored"
                                THEN files_ignored + 1 ELSE files_ignored
            /\ files_considered' = IF impl = "legacy" /\ eff.tag # "ignored"
                                   THEN files_considered + 1
                                   ELSE files_considered
            /\ outcome' = [outcome EXCEPT ![p] = eff.tag]
            /\ last' = [path |-> p, calls |-> eff.calls]
            /\ phase' = IF eff.raised THEN "aborted" ELSE "running"
            /\ shadow' = IF dry_run
                          THEN RealStep(shadow, p, src[p], Succeeded(eff.calls))
                          ELSE shadow
       ELSE UNCHANGED <<src, dest, folders, destKind, files_moved,
                        files_skipped, total_scanned, files_ignored,
                        files_considered, outcome, last, phase, shadow>>
    /\ UNCHANGED <<impl, srcKind, extension_map, dry_run, cfg_loaded, summary,
                   start>>
    /\ UNCHANGED offRun

\* The end of the loop: _log_summary (core.py) / the summary of organize.
SummaryOf ==
    IF impl = "core"
    THEN [dry_run |-> dry_run, total_scanned |-> total_scanned,
          moved |-> files_moved, skipped |-> files_skipped]
    ELSE [dry_run |-> dry_run, total_scanned |-> total_scanned,
          ignored |-> files_ignored, considered |-> files_considered,
          moved |-> files_moved, skipped |-> files_skipped,
          unaccounted |-> files_considered - (files_moved + files_skipped)]

LogSummary ==
    /\ phase = "running"
    /\ todo = {}
    /\ phase' = "done"
    /\ summary' = Append(summary, SummaryOf)
    /\ UNCHANGED <<impl, srcKind, destKind, src, dest, folders, extension_map,
                   dry_run, cfg_loaded, files_moved, files_skipped,
                   total_scanned, files_ignored, files_considered, todo,
                   outcome, last, start, shadow>>
    /\ UNCHANGED offRun

Next ==
    \/ Construct
    \/ OrganizeStart
    \/ \E p \in todo, io \in IOs : ProcessFile(p, io)
    \/ LogSummary

Spec == Init /\ [][Next]_vars

\* ------------------------------------------------------ the configuration
EmptyMap == [e \in {} |-> ""]

\* dict.update: the entries of u over those of d.
Update(d, u) ==
    [e \in DOMAIN d \cup DOMAIN u |-> IF e \in DOMAIN u THEN u[e] ELSE d[e]]

\* The JSON objects a user's configuration file holds in the model.
UserMaps == {EmptyMap, (".pdf" :> "Papers"), (".xyz" :> "Misc")}

\* The configuration file: missing; there but open() raises OSError; text
\* that is no JSON; bytes that are no UTF-8 text (reading raises
\* UnicodeDecodeError, a ValueError); JSON that is no object; a JSON object.
ConfigFiles ==
    {[kind |-> k, map |-> EmptyMap] :
        k \in {"missing", "unreadable", "bad_json", "bad_utf8", "not_object"}}
    \cup {[kind |-> "object", map |-> m] : m \in UserMaps}

\* What a loader returns: a map, or the exception that leaves it.
Returned(m) == [raised |-> FALSE, map |-> m]
Raised == [raised |-> TRUE, map |-> EmptyMap]

\* config.py load_extension_map: "except (json.JSONDecodeError, OSError)".
LoadExtensionMapCore(file) ==
    CASE file.kind = "missing" -> Returned(defaults)
      [] file.kind = "unreadable" -> Returned(defaults)
      [] file.kind = "bad_json" -> Returned(defaults)
      [] file.kind = "bad_utf8" -> Raised
      [] file.kind = "not_object" -> Returned(defaults)
      [] OTHER -> Returned(Update(defaults, file.map))

\* organizer_old.py _load_extension_map_config: "except json.JSONDecodeError"
\* and "except Exception".
LoadExtensionMapLegacy(file) ==
    CASE file.kind = "object" -> Returned(Update(defaults, file.map))
      [] OTHER -> Returned(defaults)

LoadExtensionMap(file) ==
    IF impl = "core" THEN LoadExtensionMapCore(file)
    ELSE LoadExtensionMapLegacy(file)

\* ------------------------------------------- the resolver, step by step
\* _get_unique_destination_path as its loop runs: one action per evaluation
\* of "while potential_dest_path.exists()". The folder is a category folder
\* of dest; probed counts the suffixed names whose existence was tested.
ResolverFolder == "Documents"
ResolverName == Name("a", ".pdf")

\* The suffixes k of the names stem(k)ext the folder holds: none, the first,
\* all up to just below, up to and past MAX_ATTEMPTS, and all but one of them.
ResolverFills ==
    {1..n : n \in {0, 1, MAX_ATTEMPTS - 1, MAX_ATTEMPTS, MAX_ATTEMPTS + 1}}
        \cup {(1..MAX_ATTEMPTS) \ {2}}

ResolverTrees ==
    {[q \in ({<<ResolverFolder, ResolverName>>} \cap O)
              \cup {<<ResolverFolder, SuffixedName(ResolverName, k)>> : k \in S}
        |-> "x"] :
       S \in ResolverFills,
       O \in {{}, {<<ResolverFolder, ResolverName>>}}}

ResolverInit ==
    /\ impl \in {"core", "legacy"}
    /\ phase = "ready"
    /\ srcKind = "dir"
    /\ destKind = "dir"
    /\ src = <<>>
    /\ dest \in ResolverTrees
    /\ folders = {ResolverFolder}
    /\ extension_map = DEFAULT_EXTENSION_MAP
    /\ dry_run = FALSE
    /\ cfg_loaded = FALSE
    /\ files_moved = 0
    /\ files_skipped = 0
    /\ total_scanned = 0
    /\ files_ignored = 0
    /\ files_considered = 0
    /\ todo = {}
    /\ outcome = <<>>
    /\ last = [path |-> <<>>, calls |-> NoCalls]
    /\ summary = <<>>
    /\ start = Snapshot
    /\ resolver = [pc |-> "called"]
    /\ shadow = ShadowAt(dest, {})
    /\ classified = <<>>
    /\ walk = WalkIdle
    /\ SessionIdle

\* A slip in the lines before the loop: the suffixes start at 0.
ResolverEnter_FromZero ==
    /\ resolver.pc = "called"
    /\ resolver' = [pc |-> "loop", counter |-> 0,
                    potential_dest_path |-> ResolverName, probed |-> 0,
                    logged |-> <<>>]
    /\ UNCHANGED offResolver

\* The lines before the loop: base_name, extension, counter = 1 and
\* potential_dest_path = destination_folder / original_file_name.
ResolverEnter ==
    /\ resolver.pc = "called"
    /\ resolver' = [pc |-> "loop", counter |-> 1,
                    potential_dest_path |-> ResolverName, probed |-> 0,
                    logged |-> <<>>]
    /\ UNCHANGED offResolver

\* The suffixed names tested so far, this test included.
ProbedNow ==
    IF resolver.potential_dest_path = ResolverName
    THEN resolver.probed ELSE resolver.probed + 1

\* The loop condition is false: return potential_dest_path.
ResolverReturn ==
    /\ resolver.pc = "loop"
    /\ ~DestExists(ResolverFolder, resolver.potential_dest_path)
    /\ resolver' = [resolver EXCEPT !.pc = "returned", !.probed = ProbedNow]
    /\ UNCHANGED offResolver

\* organizer.py: "if counter > 1000": log the error, return the original name.
ResolverGiveUp ==
    /\ resolver.pc = "loop"
    /\ DestExists(ResolverFolder, resolver.potential_dest_path)
    /\ impl = "legacy"
    /\ resolver.counter > MAX_ATTEMPTS
    /\ resolver' = [resolver EXCEPT !.pc = "returned",
                                    !.probed = ProbedNow,
                                    !.potential_dest_path = ResolverName,
                                    !.logged = Append(@, "error")]
    /\ UNCHANGED offResolver

\* The loop body: the next suffixed name, counter += 1.
ResolverProbeNext ==
    /\ resolver.pc = "loop"
    /\ DestExists(ResolverFolder, resolver.potential_dest_path)
    /\ ~(impl = "legacy" /\ resolver.counter > MAX_ATTEMPTS)
    /\ resolver' = [resolver EXCEPT
                        !.probed = ProbedNow,
                        !.potential_dest_path =
                            SuffixedName(ResolverName, resolver.counter),
                        !.counter = @ + 1]
    /\ UNCHANGED offResolver

ResolverNext ==
    \/ ResolverEnter
    \/ ResolverReturn
    \/ ResolverGiveUp
    \/ ResolverProbeNext

ResolverSpec == ResolverInit /\ [][ResolverNext]_vars

\* ------------------------------------------------- the classifier, alone
\* The classifier called on file names, one call per action, under maps a
\* configuration can produce: the default map, no mapping, a suffix more, and
\* a suffix mapped to the empty folder name.
ClassifyBases == {"a", "b"}
ClassifyExts == {"", ".pdf", ".PDF", ".txt", ".TXT", ".xyz", ".XYZ"}
ClassifyNames == {Name(b, e) : b \in ClassifyBases, e \in ClassifyExts}
ClassifyMaps ==
    {DEFAULT_EXTENSION_MAP,
     [e \in {} |-> ""],
     (".xyz" :> "Misc") @@ DEFAULT_EXTENSION_MAP,
     (".pdf" :> "") @@ DEFAULT_EXTENSION_MAP}

\* The names of the calls: one of each base, of the suffixes of one call set.
ClassifyCalls ==
    {N \in SUBSET ClassifyNames :
        /\ Cardinality(N) <= MaxFiles
        /\ \A n, m \in N : n.base = m.base => n = m}

ClassifyInit ==
    /\ impl \in {"core", "legacy"}
    /\ phase = "ready"
    /\ srcKind = "dir"
    /\ destKind = "missing"
    /\ src \in {[q \in {<<"", n>> : n \in N} |-> "x"] : N \in ClassifyCalls}
    /\ dest = <<>>
    /\ folders = {}
    /\ extension_map \in ClassifyMaps
    /\ dry_run = FALSE
    /\ cfg_loaded = FALSE
    /\ files_moved = 0
    /\ files_skipped = 0
    /\ total_scanned = 0
    /\ files_ignored = 0
    /\ files_considered = 0
    /\ todo = {}
    /\ outcome = <<>>
    /\ last = [path |-> <<>>, calls |-> NoCalls]
    /\ summary = <<>>
    /\ start = Snapshot
    /\ resolver = ResolverIdle
    /\ shadow = ShadowAt(dest, {})
    /\ classified = <<>>
    /\ walk = WalkIdle
    /\ SessionIdle

\* _process_file, lines 71-76 / _get_destination_folder_or_ignore, called
\* on the file of the source tree named n.
ClassifyFile(n) ==
    /\ <<"", n>> \in DOMAIN src
    /\ n \notin DOMAIN classified
    /\ classified' = (n :> Classify(n, extension_map)) @@ classified
    /\ UNCHANGED offClassify

ClassifyNext == \E n \in ClassifyNames : ClassifyFile(n)

ClassifySpec == ClassifyInit /\ [][ClassifyNext]_vars

\* ------------------------------------------------ organize, called again
\* The runs start from a valid pair of directories, the destination holding
\* at most one file.
RerunInit ==
    /\ Init
    /\ IsDir(srcKind)
    /\ IsDir(destKind)
    /\ Cardinality(DOMAIN dest) <= 1
    /\ folders = {q[1] : q \in DOMAIN dest}

\* A slip in organize: the counters are not reset.
Reorganize_NoReset ==
    /\ phase = "done"
    /\ Len(summary) < MaxRuns
    /\ phase' = "running"
    /\ dry_run' \in (IF impl = "core" THEN BOOLEAN ELSE {dry_run})
    /\ total_scanned' = 0
    /\ files_ignored' = 0
    /\ files_considered' = 0
    /\ todo' = DOMAIN src
    /\ outcome' = [q \in DOMAIN src |-> "pending"]
    /\ start' = Snapshot
    /\ shadow' = ShadowAt(dest, DOMAIN src)
    /\ UNCHANGED <<impl, srcKind, destKind, src, dest, folders, extension_map,
                   cfg_loaded, last, summary, files_moved, files_skipped>>
    /\ UNCHANGED offRun

\* organize called on an organizer that has finished a run: the counters are
\* reset (core.py lines 58-59, organizer.py lines 478-479) and the walk
\* begins; dry_run is an argument of the call in core.py, an attribute set
\* by the constructor in organizer.py.
Reorganize ==
    /\ phase = "done"
    /\ Len(summary) < MaxRuns
    /\ phase' = "running"
    /\ dry_run' \in (IF impl = "core" THEN BOOLEAN ELSE {dry_run})
    /\ files_moved' = 0
    /\ files_skipped' = 0
    /\ total_scanned' = 0
    /\ files_ignored' = 0
    /\ files_considered' = 0
    /\ todo' = DOMAIN src
    /\ outcome' = [q \in DOMAIN src |-> "pending"]
    /\ start' = Snapshot
    /\ shadow' = ShadowAt(dest, DOMAIN src)
    /\ UNCHANGED <<impl, srcKind, destKind, src, dest, folders, extension_map,
                   cfg_loaded, last, summary>>
    /\ UNCHANGED offRun

RerunNext ==
    \/ Next
    \/ Reorganize

RerunSpec == RerunInit /\ [][RerunNext]_vars

\* ------------------------------------------------- a crowded category
\* Real runs over a category folder that
\* holds the name of the source files and its suffixed names: none of them,
\* or all the resolver tries. The source files share one name, in the root
\* and in a subfolder.
CrowdedFills == {1..n : n \in {0, MAX_ATTEMPTS}}

CrowdedTrees ==
    {[q \in ({<<ResolverFolder, ResolverName>>} \cap O)
              \cup {<<ResolverFolder, SuffixedName(ResolverName, k)>> : k \in S}
        |-> "x"] :
       S \in CrowdedFills,
       O \in {{}, {<<ResolverFolder, ResolverName>>}}}

CrowdedInit ==
    /\ impl \in {"core", "legacy"}
    /\ phase = "new"
    /\ srcKind = "dir"
    /\ destKind = "dir"
    /\ src \in Trees({<<d, ResolverName>> : d \in Dirs}, MaxFiles)
    /\ dest \in CrowdedTrees
    /\ folders = {ResolverFolder}
    /\ extension_map = DEFAULT_EXTENSION_MAP
    /\ dry_run = FALSE
    /\ cfg_loaded = FALSE
    /\ files_moved = Unset
    /\ files_skipped = Unset
    /\ total_scanned = 0
    /\ files_ignored = 0
    /\ files_considered = 0
    /\ todo = {}
    /\ outcome = [q \in DOMAIN src |-> "pending"]
    /\ last = [path |-> <<>>, calls |-> NoCalls]
    /\ summary = <<>>
    /\ start = Snapshot
    /\ resolver = ResolverIdle
    /\ shadow = ShadowAt(dest, DOMAIN src)
    /\ classified = <<>>
    /\ walk = WalkIdle
    /\ SessionIdle

CrowdedSpec == CrowdedInit /\ [][Next]_vars

\* ------------------------------------------------ the same run, repeated
\* Real runs of one organizer, one right after the other, in which every
\* call succeeds; the category folder is empty, holds the name of the source
\* files, or is crowded.
AllSucceed == [sh |-> TRUE, dh |-> TRUE, mv |-> "ok"]

RepeatInit ==
    /\ CrowdedInit
    /\ src # <<>>

\* organize on the same organizer again, the dry-run flag as it was.
ReorganizeSame ==
    /\ Reorganize
    /\ dry_run' = dry_run

RepeatNext ==
    \/ Construct
    \/ OrganizeStart
    \/ \E p \in todo : ProcessFile(p, AllSucceed)
    \/ LogSummary
    \/ ReorganizeSame

RepeatSpec == RepeatInit /\ [][RepeatNext]_vars

\* ------------------------------------------------- a file that vanishes
\* The loop body for a file that another process removes once is_file() has
\* answered: the file counts as scanned and is classified by its name;
\* open() in _calculate_file_hash and shutil.move, when they are reached,
\* raise FileNotFoundError, an OSError (shutil.move's copy opens the source
\* before it creates the destination).
ProcessFileVanished(p, io) ==
    /\ phase = "running"
    /\ p \in todo
    /\ p \in DOMAIN src
    /\ todo' = todo \ {p}
    /\ LET eff == ProcessFileEffect(p, io) IN
       /\ Canonical(io, eff.calls)
       /\ eff.calls.sh # "ok"
       /\ eff.calls.mv \in {"none", "mkdir_oserror", "move_oserror"}
       /\ src' = Remove(src, p)
       /\ dest' = eff.dest
       /\ folders' = eff.folders
       /\ destKind' = eff.destKind
       /\ files_moved' = eff.moved
       /\ files_skipped' = eff.skipped
       /\ total_scanned' = total_scanned + 1
       /\ files_ignored' = IF impl = "legacy" /\ eff.tag = "ignored"
                           THEN files_ignored + 1 ELSE files_ignored
       /\ files_considered' = IF impl = "legacy" /\ eff.tag # "ignored"
                              THEN files_considered + 1
                              ELSE files_considered
       /\ outcome' = [outcome EXCEPT ![p] = eff.tag]
       /\ last' = [path |-> p, calls |-> eff.calls]
       /\ phase' = IF eff.raised THEN "aborted" ELSE "running"
       /\ shadow' = IF dry_run
                     THEN RealStep(shadow, p, src[p], FALSE)
                     ELSE shadow
    /\ UNCHANGED <<impl, srcKind, extension_map, dry_run, cfg_loaded, summary,
                   start>>
    /\ UNCHANGED offRun

VanishNext ==
    \/ Next
    \/ \E p \in todo, io \in IOs : ProcessFileVanished(p, io)

VanishSpec == Init /\ [][VanishNext]_vars

\* ------------------------------------------------ the walk, directory by
\* directory. rglob('*') is a generator: it yields the entries of a
\* directory from a listing taken when the directory is reached, and lists
\* the subdirectories of a directory only after the loop body has run for
\* all its entries; the order within a listing is the filesystem's. With
\* dest_dir = source_dir/out the destination tree is part of what is walked:
\* a file at out/<category>/<name> is a regular file under source_dir.
NestedDir == "out"

\* The orders in which a listing can give the directories of S.
Orders(S) ==
    {o \in [1..Cardinality(S) -> S] : \A i, j \in DOMAIN o : o[i] = o[j] => i = j}

FilesIn(d) == {q \in DOMAIN src : q[1] = d}

NestedInit ==
    /\ impl \in {"core", "legacy"}
    /\ phase = "new"
    /\ extension_map = DEFAULT_EXTENSION_MAP
    /\ dry_run = FALSE
    /\ srcKind = "dir"
    /\ destKind \in {"missing", "dir"}
    /\ src \in SrcTrees
    /\ IF IsDir(destKind)
       THEN /\ dest \in Trees(DestPaths(extension_map),
                              Cardinality(DestPaths(extension_map)))
            /\ folders = {q[1] : q \in DOMAIN dest}
       ELSE dest = <<>> /\ folders = {}
    /\ cfg_loaded = FALSE
    /\ files_moved = Unset
    /\ files_skipped = Unset
    /\ total_scanned = 0
    /\ files_ignored = 0
    /\ files_considered = 0
    /\ todo = {}
    /\ outcome = [q \in DOMAIN src |-> "pending"]
    /\ last = [path |-> <<>>, calls |-> NoCalls]
    /\ summary = <<>>
    /\ start = Snapshot
    /\ resolver = ResolverIdle
    /\ shadow = ShadowAt(dest, DOMAIN src)
    /\ classified = <<>>
    /\ walk \in {[WalkIdle EXCEPT !.nested = n] : n \in BOOLEAN}
    /\ SessionIdle

\* organize, up to the loop: the counters are reset; the walk lists
\* source_dir, whose regular files are its first items.
NestedStart ==
    /\ phase = "ready"
    /\ phase' = "running"
    /\ files_moved' = 0
    /\ files_skipped' = 0
    /\ total_scanned' = 0
    /\ files_ignored' = 0
    /\ files_considered' = 0
    /\ todo' = FilesIn("")
    /\ outcome' = [q \in DOMAIN src |-> "pending"]
    /\ summary' = <<>>
    /\ start' = Snapshot
    /\ shadow' = ShadowAt(dest, DOMAIN src)
    /\ walk' = [walk EXCEPT !.listed = FALSE, !.stack = <<>>,
                            !.todo_dest = {}, !.revisited = {}]
    /\ UNCHANGED <<impl, srcKind, destKind, src, dest, folders, extension_map,
                   dry_run, cfg_loaded, last>>
    /\ UNCHANGED <<resolver, classified, onSession>>

\* The files of source_dir are done: its subdirectories are listed, as they
\* are now. sub exists when the tree had files in it; out exists when
\* dest_dir did, or a move has created it.
WalkListSubdirectories ==
    /\ phase = "running"
    /\ ~walk.listed
    /\ todo = {}
    /\ LET subdirectories ==
               {d \in Dirs \ {""} : \E q \in DOMAIN start.src : q[1] = d}
                  \cup (IF walk.nested /\ IsDir(destKind) THEN {NestedDir} ELSE {})
       IN \E o \in Orders(subdirectories) :
             walk' = [walk EXCEPT !.listed = TRUE, !.stack = o]
    /\ UNCHANGED <<onRun, resolver, classified, onSession>>

\* The walk reaches its next directory and lists it: the files of sub, the
\* category folders of out, the files of a category folder.
WalkEnter ==
    /\ phase = "running"
    /\ walk.listed
    /\ todo = {}
    /\ walk.todo_dest = {}
    /\ walk.stack # <<>>
    /\ LET d == walk.stack[1]
           rest == [i \in 1..(Len(walk.stack) - 1) |-> walk.stack[i + 1]]
       IN IF d = NestedDir
          THEN /\ \E o \in Orders(folders) :
                     walk' = [walk EXCEPT !.stack = o \o rest]
               /\ UNCHANGED todo
          ELSE IF d \in Dirs
          THEN /\ todo' = FilesIn(d)
               /\ walk' = [walk EXCEPT !.stack = rest]
          ELSE /\ walk' = [walk EXCEPT
                              !.stack = rest,
                              !.todo_dest = {t \in DOMAIN dest : t[1] = d}]
               /\ UNCHANGED todo
    /\ UNCHANGED <<impl, phase, srcKind, destKind, src, dest, folders,
                   extension_map, dry_run, cfg_loaded, files_moved,
                   files_skipped, total_scanned, files_ignored,
                   files_considered, outcome, last, summary, start, shadow>>
    /\ UNCHANGED <<resolver, classified, onSession>>

\* The loop body for the regular file at out/<category>/<name>, in a real
\* run: its suffix maps it to the folder it is in, so the path it would be
\* moved to is its own and exists, and both digests are read from it.
\* core.py skips it as identical, or, a digest failing, moves it to a
\* suffixed name; organizer.py skips it, or on a failed digest logs it.
ProcessDestFile(t, io) ==
    /\ phase = "running"
    /\ t \in walk.todo_dest
    /\ t \in DOMAIN dest
    /\ Classify(t[2], extension_map) = <<t[1]>>
    /\ LET calls == HashCalls(io)
           same == io.sh /\ io.dh
           final == UniquePathCore(t[1], t[2])
           mv == IF impl = "core" /\ ~same THEN io.mv ELSE "none"
       IN /\ Canonical(io, [calls EXCEPT !.mv = mv])
          /\ dest' = IF mv = "ok"
                      THEN (<<t[1], final>> :> dest[t]) @@ Remove(dest, t)
                      ELSE dest
          /\ files_moved' = IF mv = "ok" THEN files_moved + 1 ELSE files_moved
          /\ files_skipped' =
                 IF same \/ mv \in {"mkdir_oserror", "move_oserror"}
                 THEN files_skipped + 1 ELSE files_skipped
          /\ phase' = IF mv = "move_exception" THEN "aborted" ELSE "running"
    /\ total_scanned' = total_scanned + 1
    /\ files_considered' = IF impl = "legacy" THEN files_considered + 1
                           ELSE files_considered
    /\ walk' = [walk EXCEPT
                    !.todo_dest = @ \ {t},
                    !.revisited = IF t \notin DOMAIN start.dest
                                     \/ dest[t] # start.dest[t]
                                  THEN @ \cup {t} ELSE @]
    /\ UNCHANGED <<impl, srcKind, destKind, src, folders, extension_map,
                   dry_run, cfg_loaded, files_ignored, todo, outcome, last,
                   summary, start, shadow>>
    /\ UNCHANGED <<resolver, classified, onSession>>

\* The generator is exhausted: the summary.
NestedLogSummary ==
    /\ walk.listed
    /\ walk.stack = <<>>
    /\ walk.todo_dest = {}
    /\ LogSummary

NestedNext ==
    \/ Construct
    \/ NestedStart
    \/ \E p \in todo, io \in IOs : ProcessFile(p, io)
    \/ WalkListSubdirectories
    \/ WalkEnter
    \/ \E t \in walk.todo_dest, io \in IOs : ProcessDestFile(t, io)
    \/ NestedLogSummary

NestedSpec == NestedInit /\ [][NestedNext]_vars

\* ------------------------------------------------------- standard input
\* What input() gives: <<a line>>, or <<>> for EOFError; once the input has
\* ended, or after MaxInputs lines, every further input() raises EOFError.
Lines(S) == {<<a>> : a \in S} \cup {<<>>}

ReadLine(line) ==
    /\ line # <<>> => answers < MaxInputs
    /\ answers' = IF line = <<>> THEN MaxInputs ELSE answers + 1
    /\ typed' = line

\* str.strip().lower() on the lines of the model.
StripLower(a) ==
    CASE a = "Yes" -> "yes"
      [] a = "Y" -> "y"
      [] a = ".PDF" -> ".pdf"
      [] a = "Ignore" -> "ignore"
      [] OTHER -> a

\* The characters of the lines of the model.
Chars(a) ==
    CASE a = "" -> <<>>
      [] a = "y" -> <<"y">>
      [] a = "yes" -> <<"y", "e", "s">>
      [] a = "n" -> <<"n">>
      [] a = "done" -> <<"d", "o", "n", "e">>
      [] a = "pdf" -> <<"p", "d", "f">>
      [] a = ".pdf" -> <<".", "p", "d", "f">>
      [] a = ".zzz" -> <<".", "z", "z", "z">>
      [] a = "ignore" -> <<"i", "g", "n", "o", "r", "e">>
      [] a = "Papers" -> <<"P", "a", "p", "e", "r", "s">>
      [] a = "Documents" -> <<"D", "o", "c", "u", "m", "e", "n", "t", "s">>
      [] a = "Misc" -> <<"M", "i", "s", "c">>
      [] a = "inv/alid" -> <<"i", "n", "v", "/", "a", "l", "i", "d">>
      [] a = ".hidden" -> <<".", "h", "i", "d", "d", "e", "n">>
      [] OTHER -> <<"?">>

\* review_choice[0] if review_choice else 'n'
FirstCharOrN(a) == IF Chars(a) = <<>> THEN "n" ELSE Chars(a)[1]

INVALID_CHARS == {"/", "\\", ":", "*", "?", "\"", "<", ">", "|"}

\* The folder-name check of the flows: a forbidden character, or a leading
\* or trailing dot (organizer_old.py adds a trailing blank, which strip()
\* has removed before).
InvalidFolderName(name) ==
    LET c == Chars(name) IN
    \/ \E i \in DOMAIN c : c[i] \in INVALID_CHARS
    \/ c[1] = "."
    \/ c[Len(c)] = "."
    \/ impl = "legacy" /\ c[Len(c)] = " "

\* A change of the session's map; it reaches DEFAULT_EXTENSION_MAP when the
\* map is that very dictionary.
SetMap(m) ==
    /\ extension_map' = m
    /\ defaults' = IF aliased THEN m ELSE defaults

\* ------------------------------------------------------------ the session
\* One invocation of the program: main of cli.py (impl = "core"), or
\* FileOrganizer(...) and organize() of organizer_old.py (impl = "legacy");
\* and the two flows of cli.py called on their own. The run of the organizer
\* inside the session is the run of Next, while pc = "run".
SessionExts == {".PDF", ".xyz", ".dat"}
SessionTrees ==
    {[q \in {<<"", Name("a", e)>> : e \in E} |-> "x"] :
        E \in {F \in SUBSET SessionExts : Cardinality(F) <= MaxFiles}}

Entries(i) ==
    IF i = "core"
    THEN {"main", "handle_interactive_edit", "handle_unmapped_extensions"}
    ELSE {"organize"}

\* Whether the whole program runs, or one flow on the map it is handed.
WholeProgram == entry \in {"main", "organize"}

SessionInit ==
    /\ impl \in {"core", "legacy"}
    /\ entry \in Entries(impl)
    /\ pc = CASE entry = "handle_interactive_edit" -> "edit_review"
              [] entry = "handle_unmapped_extensions" -> "unmapped"
              [] OTHER -> "start"
    /\ phase = "new"
    /\ srcKind \in (IF WholeProgram THEN {"dir", "missing"} ELSE {"dir"})
    /\ destKind = "missing"
    /\ src \in (IF IsDir(srcKind) THEN SessionTrees ELSE {<<>>})
    /\ dest = <<>>
    /\ folders = {}
    /\ extension_map = DEFAULT_EXTENSION_MAP
    /\ dry_run \in (IF WholeProgram THEN BOOLEAN ELSE {FALSE})
    /\ config_file \in (IF WholeProgram THEN ConfigFiles
                        ELSE {[kind |-> "missing", map |-> EmptyMap]})
    /\ cfg_loaded = FALSE
    /\ files_moved = Unset
    /\ files_skipped = Unset
    /\ total_scanned = 0
    /\ files_ignored = 0
    /\ files_considered = 0
    /\ todo = {}
    /\ outcome = [q \in DOMAIN src |-> "pending"]
    /\ last = [path |-> <<>>, calls |-> NoCalls]
    /\ summary = <<>>
    /\ start = Snapshot
    /\ resolver = ResolverIdle
    /\ shadow = ShadowAt(dest, DOMAIN src)
    /\ classified = <<>>
    /\ walk = WalkIdle
    /\ defaults = DEFAULT_EXTENSION_MAP
    /\ aliased = FALSE
    /\ loaded = <<>>
    /\ map_changed = FALSE
    /\ answers = 0
    /\ typed = <<>>
    /\ events = <<>>
    /\ pending = <<>>
    /\ ext_to_modify = ""

\* What the session's own steps leave alone of the organizer: all but the
\* map, and for the constructor of organizer_old.py the phase and counters.
runButMap == <<impl, phase, srcKind, destKind, src, dest, folders, dry_run,
               cfg_loaded, files_moved, files_skipped, total_scanned,
               files_ignored, files_considered, todo, outcome, last, summary,
               start, shadow>>
offSession == <<resolver, classified, walk>>

\* The loader's result becomes the session's map: DEFAULT_EXTENSION_MAP.copy()
\* or the merged copy, never the defaults' own dictionary.
LoadedAs(r) ==
    /\ extension_map' = r.map
    /\ aliased' = FALSE
    /\ loaded' = <<[file |-> config_file, map |-> r.map]>>

\* cli.py main, step 1: config.load_extension_map(); an exception it lets
\* through is caught by main, which exits with status 1. Steps 2 (the two
\* flows) are comments in main, so the organizer is next.
CliLoad ==
    /\ entry = "main"
    /\ pc = "start"
    /\ LET r == LoadExtensionMap(config_file) IN
       IF r.raised
       THEN /\ pc' = "exit"
            /\ events' = Append(events, "load_raised")
            /\ UNCHANGED <<extension_map, aliased, loaded>>
       ELSE /\ pc' = "run"
            /\ events' = Append(events, "load")
            /\ LoadedAs(r)
    /\ UNCHANGED <<runButMap, offSession, entry, config_file, defaults,
                   map_changed, answers, typed, pending, ext_to_modify>>

\* A slip in main: the edit flow is called once organize has returned.
CliFinish_ThenEdit ==
    /\ entry = "main"
    /\ pc = "run"
    /\ phase \in {"done", "rejected", "aborted"}
    /\ pc' = IF phase = "done" THEN "edit_review" ELSE "exit"
    /\ UNCHANGED <<onRun, offSession, entry, config_file, defaults, aliased,
                   loaded, map_changed, answers, typed, events, pending,
                   ext_to_modify>>

\* cli.py main, after organize: step 4 (the save prompt) is a comment, so
\* main ends; ValueError from the constructor or any exception from organize
\* ends it with status 1.
CliFinish ==
    /\ entry = "main"
    /\ pc = "run"
    /\ phase \in {"done", "rejected", "aborted"}
    /\ pc' = IF phase = "done" THEN "end" ELSE "exit"
    /\ UNCHANGED <<onRun, offSession, entry, config_file, defaults, aliased,
                   loaded, map_changed, answers, typed, events, pending,
                   ext_to_modify>>

\* organizer_old.py __init__: the two checks, the counters, then the
\* configuration is loaded and the change flag cleared.
LegacyConstruct ==
    /\ entry = "organize"
    /\ pc = "start"
    /\ phase = "new"
    /\ IF Rejects(srcKind, destKind)
       THEN /\ phase' = "rejected"
            /\ pc' = "exit"
            /\ UNCHANGED <<files_moved, files_skipped, cfg_loaded,
                           extension_map, aliased, loaded, events>>
       ELSE /\ phase' = "ready"
            /\ pc' = "organize"
            /\ files_moved' = 0
            /\ files_skipped' = 0
            /\ cfg_loaded' = TRUE
            /\ events' = Append(events, "load")
            /\ LoadedAs(LoadExtensionMap(config_file))
    /\ map_changed' = FALSE
    /\ UNCHANGED <<impl, srcKind, destKind, src, dest, folders, dry_run,
                   total_scanned, files_ignored, files_considered, todo,
                   outcome, last, summary, start, shadow>>
    /\ UNCHANGED <<offSession, entry, config_file, defaults, answers, typed,
                   pending, ext_to_modify>>

\* organizer_old.py organize, lines 549-571: the change flag is cleared and
\* the extensions of the source tree are discovered; the edit flow is next.
OrganizeBegin ==
    /\ entry = "organize"
    /\ pc = "organize"
    /\ pc' = "edit_review"
    /\ map_changed' = FALSE
    /\ UNCHANGED <<onRun, offSession, entry, config_file, defaults, aliased,
                   loaded, answers, typed, events, pending, ext_to_modify>>

\* ---------------------------------------------------------- the edit flow
ReviewAnswers == {"", "n", "y", "Yes"}
ExtensionAnswers == {"done", "pdf", ".PDF", ".zzz"}
FolderAnswers == {"", "Ignore", "Papers", "Documents", "inv/alid"}

AfterEdit == IF entry = "organize" THEN "unmapped" ELSE "returned"

\* handle_interactive_edit (cli.py), lines 26-43 /
\* _interactive_edit_existing_mappings (organizer_old.py), lines 206-227:
\* the flow is entered only on an answer that begins with 'y'.
EditReview ==
    /\ pc = "edit_review"
    /\ \E line \in Lines(ReviewAnswers) :
         /\ ReadLine(line)
         /\ pc' = IF line # <<>> /\ FirstCharOrN(StripLower(line[1])) = "y"
                  THEN "edit_ext" ELSE AfterEdit
    /\ events' = Append(events, "edit")
    /\ UNCHANGED <<onRun, offSession, entry, config_file, defaults, aliased,
                   loaded, map_changed, pending, ext_to_modify>>

\* The loop of the edit flow up to the folder prompt: 'done' or EOF ends
\* it, a line that is no extension or no key of the map is passed over.
EditAskExtension ==
    /\ pc = "edit_ext"
    /\ \E line \in Lines(ExtensionAnswers) :
         /\ ReadLine(line)
         /\ IF line = <<>>
            THEN pc' = AfterEdit /\ UNCHANGED ext_to_modify
            ELSE LET ext == StripLower(line[1]) IN
                 IF ext = "done"
                 THEN pc' = AfterEdit /\ UNCHANGED ext_to_modify
                 ELSE IF Chars(ext)[1] # "." \/ Len(Chars(ext)) < 2
                 THEN UNCHANGED <<pc, ext_to_modify>>
                 ELSE IF ext \in DOMAIN extension_map
                 THEN pc' = "edit_folder" /\ ext_to_modify' = ext
                 ELSE UNCHANGED <<pc, ext_to_modify>>
    /\ UNCHANGED <<onRun, offSession, entry, config_file, defaults, aliased,
                   loaded, map_changed, events, pending>>

\* A slip in the edit flow: the typed folder is stored without comparing.
StoresFolder_Always(current_folder, new_folder) == TRUE

\* "if current_folder != new_folder" (cli.py line 79, organizer_old.py
\* line 275): the typed folder is stored only when it is another one.
StoresFolder(current_folder, new_folder) == current_folder # new_folder

\* The folder prompt of the edit flow: keep on an empty line, remove on
\* 'ignore', else store the new name when it differs; organizer_old.py
\* first refuses an invalid name, cli.py stores whatever was typed.
EditAskFolder ==
    /\ pc = "edit_folder"
    /\ pc' = "edit_ext"
    /\ \E line \in Lines(FolderAnswers) :
         /\ ReadLine(line)
         /\ LET current_folder == extension_map[ext_to_modify] IN
            IF line = <<>> \/ line = <<"">>
            THEN UNCHANGED <<extension_map, defaults, map_changed, events>>
            ELSE IF StripLower(line[1]) = "ignore"
            THEN /\ SetMap(Remove(extension_map, ext_to_modify))
                 /\ map_changed' = TRUE
                 /\ UNCHANGED events
            ELSE IF impl = "legacy" /\ InvalidFolderName(line[1])
            THEN /\ events' = Append(events, "invalid")
                 /\ UNCHANGED <<extension_map, defaults, map_changed>>
            ELSE IF StoresFolder(current_folder, line[1])
            THEN /\ SetMap([extension_map EXCEPT ![ext_to_modify] = line[1]])
                 /\ map_changed' = TRUE
                 /\ UNCHANGED events
            ELSE UNCHANGED <<extension_map, defaults, map_changed, events>>
    /\ UNCHANGED <<runButMap, offSession, entry, config_file, aliased, loaded,
                   pending, ext_to_modify>>

\* ------------------------------------------- the unmapped-extension flow
UnmappedAnswers == {"", "Misc", "inv/alid", ".hidden"}

\* sorted() on the extensions of the model.
ExtensionsInOrder == <<".dat", ".pdf", ".txt", ".xyz", ".zzz">>
InS(S, e) == e \in S
Sorted(S) ==
    LET in(e) == InS(S, e) IN SelectSeq(ExtensionsInOrder, in)

AfterUnmapped == IF entry = "organize" THEN "run" ELSE "returned"

\* handle_unmapped_extensions (cli.py), lines 95-105 / organize
\* (organizer_old.py), lines 576-589: the extensions found in the source
\* tree that are no key of the map, sorted.
UnmappedBegin ==
    /\ pc = "unmapped"
    /\ LET found_extensions == {Lower(q[2].ext) : q \in DOMAIN src} \ {""}
           unmapped == Sorted(found_extensions \ DOMAIN extension_map)
       IN /\ pending' = unmapped
          /\ pc' = IF unmapped = <<>> THEN AfterUnmapped ELSE "unmapped_ask"
    /\ events' = Append(events, "unmapped")
    /\ UNCHANGED <<onRun, offSession, entry, config_file, defaults, aliased,
                   loaded, map_changed, answers, typed, ext_to_modify>>

\* The extension after the one just dealt with, or the end of the flow.
NextExtension ==
    /\ pending' = Tail(pending)
    /\ pc' = IF Tail(pending) = <<>> THEN AfterUnmapped ELSE "unmapped_ask"

\* An invalid folder name: a warning, and cli.py lines 117-119 "continue"
\* the for loop (the next extension), organizer_old.py lines 612-621
\* "continue" the while loop (the same extension again).
OnInvalidName(ext, folder_name) ==
    /\ events' = Append(events, "invalid")
    /\ UNCHANGED <<extension_map, defaults, map_changed>>
    /\ IF impl = "core" THEN NextExtension ELSE UNCHANGED <<pending, pc>>

\* One prompt of the flow, for the first pending extension.
UnmappedAsk ==
    /\ pc = "unmapped_ask"
    /\ LET ext == Head(pending) IN
       \E line \in Lines(UnmappedAnswers) :
         /\ ReadLine(line)
         /\ IF line = <<>>
            THEN /\ pending' = <<>>
                 /\ pc' = AfterUnmapped
                 /\ UNCHANGED <<extension_map, defaults, map_changed, events>>
            ELSE IF line[1] = ""
            THEN /\ NextExtension
                 /\ UNCHANGED <<extension_map, defaults, map_changed, events>>
            ELSE IF InvalidFolderName(line[1])
            THEN OnInvalidName(ext, line[1])
            ELSE /\ SetMap((ext :> line[1]) @@ extension_map)
                 /\ map_changed' = TRUE
                 /\ NextExtension
                 /\ UNCHANGED events
    /\ UNCHANGED <<runButMap, offSession, entry, config_file, aliased, loaded,
                   ext_to_modify>>

\* ------------------------------------------------------------- the save
SaveAnswers == {"", "n", "y", "Yes"}
WriteOutcomes == {"ok", "open_fails"}

\* A slip in the save: the dry-run flag is not consulted.
MaySave_IgnoresDryRun == map_changed

\* _save_extension_map_config, lines 291-298: no prompt unless the map was
\* changed and the run is real.
MaySave == map_changed /\ ~dry_run

\* organizer_old.py organize, line 692: _save_extension_map_config, after
\* the summary. The file is written only on an answer that begins with 'y'.
SaveConfig ==
    /\ entry = "organize"
    /\ pc = "run"
    /\ phase = "done"
    /\ pc' = "end"
    /\ IF ~MaySave
       THEN /\ events' = Append(events, "not_saved")
            /\ UNCHANGED <<config_file, answers, typed>>
       ELSE \E line \in Lines(SaveAnswers), w \in WriteOutcomes :
              /\ ReadLine(line)
              /\ IF line # <<>> /\ FirstCharOrN(StripLower(line[1])) = "y"
                 THEN IF w = "ok"
                      THEN /\ config_file' = [kind |-> "object",
                                              map |-> extension_map]
                           /\ events' = events \o <<"save_prompt", "write">>
                      ELSE /\ events' = events \o <<"save_prompt", "write_failed">>
                           /\ UNCHANGED config_file
                 ELSE /\ w = "ok"
                      /\ events' = Append(events, "save_prompt")
                      /\ UNCHANGED config_file
    /\ UNCHANGED <<onRun, offSession, entry, defaults, aliased, loaded,
                   map_changed, pending, ext_to_modify>>

SessionNext ==
    \/ CliLoad
    \/ CliFinish
    \/ LegacyConstruct
    \/ OrganizeBegin
    \/ EditReview
    \/ EditAskExtension
    \/ EditAskFolder
    \/ UnmappedBegin
    \/ UnmappedAsk
    \/ pc = "run" /\ entry = "main" /\ Construct
    \/ pc = "run" /\ WholeProgram /\ OrganizeStart
    \/ pc = "run" /\ WholeProgram /\ \E p \in todo, io \in IOs : ProcessFile(p, io)
    \/ pc = "run" /\ WholeProgram /\ LogSummary
    \/ SaveConfig

SessionSpec == SessionInit /\ [][SessionNext]_vars

\* ----------------------------------------------------------------- claims
\* This step of the run processes the regular file at p.
Processes(p) ==
    /\ phase = "running"
    /\ p \in todo
    /\ p \in DOMAIN src
    /\ todo' = todo \ {p}

\* The suffix of the name, lowercased, is a key of the extension map.
IsMapped(name) ==
    Lower(name.ext) # "" /\ Lower(name.ext) \in DOMAIN extension_map

\* dest_root/<category>/<name> for a mapped name.
Candidate(p) == <<extension_map[Lower(p[2].ext)], p[2]>>

\* The file at p meets a file of its name in its category folder.
Conflicts(p) == IsMapped(p[2]) /\ Candidate(p) \in DOMAIN dest

\* Both digests were computed for the last processed file.
BothHashed(calls) == calls.sh = "ok" /\ calls.dh = "ok"

Tagged(tags) == {q \in DOMAIN outcome : outcome[q] \in tags}

\* C1: in a real run, a source file whose name exists in its category folder
\* with an equal digest is not moved nor copied; source and destination stay
\* as they are, the skipped counter grows by 1, the moved counter stays.
C1_IdenticalDuplicateSkip ==
    [][\A p \in SrcPaths :
         ( /\ Processes(p)
           /\ ~dry_run
           /\ Conflicts(p)
           /\ BothHashed(last'.calls)
           /\ Sha256(dest[Candidate(p)]) = Sha256(src[p]) )
         => /\ last'.calls.mv = "none"
            /\ Snapshot' = Snapshot
            /\ files_skipped' = files_skipped + 1
            /\ files_moved' = files_moved]_vars

C1_Witness ==
    /\ ~dry_run
    /\ phase \in {"running", "done"}
    /\ last.path \in Tagged({"skipped_identical"})
    /\ BothHashed(last.calls)
    /\ last.path \in DOMAIN src
    /\ files_skipped >= 1

\* C2: in a real run, a source file whose name exists in its category folder
\* with another digest, while stem(1)ext does not exist, is moved to
\* stem(1)ext with its content; the file that was there is unchanged, the
\* moved counter grows by 1 and the skipped counter stays.
C2_ConflictingNameRename ==
    [][\A p \in SrcPaths :
         LET renamed == <<Candidate(p)[1], SuffixedName(p[2], 1)>> IN
         ( /\ Processes(p)
           /\ ~dry_run
           /\ Conflicts(p)
           /\ BothHashed(last'.calls)
           /\ Sha256(dest[Candidate(p)]) # Sha256(src[p])
           /\ renamed \notin DOMAIN dest
           /\ last'.calls.mv = "ok" )
         => /\ dest' = (renamed :> src[p]) @@ dest
            /\ dest'[Candidate(p)] = dest[Candidate(p)]
            /\ src' = Remove(src, p)
            /\ files_moved' = files_moved + 1
            /\ files_skipped' = files_skipped]_vars

C2_Witness ==
    /\ ~dry_run
    /\ phase \in {"running", "done"}
    /\ last.path \in Tagged({"renamed"})
    /\ BothHashed(last.calls)
    /\ last.calls.mv = "ok"
    /\ LET renamed == <<Candidate(last.path)[1], SuffixedName(last.path[2], 1)>>
       IN /\ renamed \in DOMAIN dest
          /\ renamed \notin DOMAIN start.dest
          /\ dest[renamed] # dest[Candidate(last.path)]

\* C3: in a real run, a source file with a mapped suffix whose name does not
\* exist in its category folder is, after processing, at
\* dest_root/<category>/<name> with its content and no longer at its source
\* path; the category folder exists, the moved counter has grown by 1 and the
\* skipped counter is unchanged.
C3_NoConflictMove ==
    [][\A p \in SrcPaths :
         ( /\ Processes(p)
           /\ ~dry_run
           /\ IsMapped(p[2])
           /\ Candidate(p) \notin DOMAIN dest
           /\ last'.calls.mv = "ok" )
         => /\ dest' = (Candidate(p) :> src[p]) @@ dest
            /\ p \notin DOMAIN src'
            /\ src' = Remove(src, p)
            /\ Candidate(p)[1] \in folders'
            /\ destKind' = "dir"
            /\ files_moved' = files_moved + 1
            /\ files_skipped' = files_skipped]_vars

C3_Witness ==
    /\ ~dry_run
    /\ phase \in {"running", "done"}
    /\ last.path \in Tagged({"moved"})
    /\ last.path \notin DOMAIN src
    /\ Candidate(last.path) \in DOMAIN dest
    /\ Candidate(last.path) \notin DOMAIN start.dest
    /\ files_moved >= 1

\* C4: a dry run moves nothing and creates no file and no folder: source and
\* destination trees are what they were when the run started, no exception
\* ends the run, and the summary logged at its end reports every scanned file.
C4_DryRunInert ==
    dry_run =>
        /\ Snapshot = start
        /\ phase # "aborted"
        /\ phase = "done" =>
              /\ Len(summary) = 1
              /\ summary[1].dry_run
              /\ summary[1].total_scanned = Cardinality(DOMAIN start.src)

C4_Witness ==
    /\ dry_run
    /\ phase = "done"
    /\ Len(summary) = 1
    /\ Tagged({"dry_moved", "dry_renamed", "dry_exists"}) # {}
    /\ Tagged({"ignored"}) # {}
    /\ DOMAIN src = DOMAIN outcome

\* The ignored count: files_ignored_by_rule of organizer.py; core.py keeps
\* no such counter, and its "Ignoring file" log events are counted.
IgnoredCount ==
    IF impl = "legacy" THEN files_ignored ELSE Cardinality(Tagged({"ignored"}))

C6_HashFailureAborts ==
    [][\A p \in SrcPaths :
         ( /\ Processes(p)
           /\ ~dry_run
           /\ Conflicts(p)
           /\ (last'.calls.sh = "fail" \/ last'.calls.dh = "fail") )
         => /\ last'.calls.mv = "none"
            /\ Snapshot' = Snapshot
            /\ p \in DOMAIN src'
            /\ files_moved' = files_moved
            /\ files_skipped' = files_skipped]_vars

\* C7: in a real run, when mkdir or the move raises a filesystem error, the
\* error is logged, the source file stays at its path and neither the moved
\* nor the skipped counter changes.
C7_MoveFailureNotCounted ==
    [][\A p \in SrcPaths :
         ( /\ Processes(p)
           /\ ~dry_run
           /\ last'.calls.mv \in {"mkdir_oserror", "move_oserror"} )
         => /\ outcome'[p] = "move_error"
            /\ p \in DOMAIN src'
            /\ src'[p] = src[p]
            /\ files_moved' = files_moved
            /\ files_skipped' = files_skipped]_vars

\* C8: whatever fails during hashing or moving, with any kind of exception
\* from the move, no exception leaves organize, and a run that ends has
\* processed every file and logged its summary.
C8_ErrorsNeverAbort ==
    /\ phase # "aborted"
    /\ phase = "done" => (Tagged({"pending"}) = {} /\ Len(summary) = 1)

\* C9: at the end of a real run every scanned file is in exactly one class:
\* ignored, moved or renamed, skipped as identical, or unaccounted (an error).
\* The moved counter counts the moved files, the skipped counter only the
\* files whose name existed with an equal digest, and scanned = ignored +
\* moved + skipped + unaccounted.
C9_SummaryAccounting ==
    (phase = "done" /\ ~dry_run) =>
        LET ignored == Cardinality(Tagged({"ignored"}))
            errors == Cardinality(Tagged({"hash_error", "move_error"}))
        IN /\ summary[1].total_scanned = Cardinality(DOMAIN outcome)
           /\ summary[1].moved = Cardinality(Tagged({"moved", "renamed"}))
           /\ summary[1].skipped = Cardinality(Tagged({"skipped_identical"}))
           /\ summary[1].total_scanned =
                 ignored + summary[1].moved + summary[1].skipped + errors

\* C10: the constructor raises ValueError exactly when source_dir is not an
\* existing directory or dest_dir exists and is no directory; it raises
\* before any configuration is loaded, any file is scanned and any change to
\* the filesystem; a successful construction leaves both counters at 0.
C10_ConstructionValidation ==
    /\ phase # "new" =>
          ((phase = "rejected") <=> (srcKind # "dir" \/ destKind = "file"))
    /\ phase = "rejected" =>
          /\ ~cfg_loaded
          /\ Snapshot = start
          /\ todo = {} /\ total_scanned = 0
          /\ files_moved = Unset /\ files_skipped = Unset
    /\ phase = "ready" => (files_moved = 0 /\ files_skipped = 0)

C10_Witness ==
    /\ phase = "rejected"
    /\ srcKind = "dir"
    /\ destKind = "file"

\* The folder holds the original name and stem(k)ext for exactly the k of S.
FolderHolds(S) ==
    DOMAIN dest = {<<ResolverFolder, ResolverName>>}
                     \cup {<<ResolverFolder, SuffixedName(ResolverName, k)>> : k \in S}

\* C11: whatever the folder holds, _get_unique_destination_path tests at most
\* MAX_ATTEMPTS suffixed names stem(1)ext .. stem(1000)ext, and when all of
\* them exist it returns the original folder/name path.
C11_ResolverBound ==
    /\ resolver.pc \in {"loop", "returned"} => resolver.probed <= MAX_ATTEMPTS
    /\ ( /\ resolver.pc = "returned"
         /\ \E S \in ResolverFills : (1..MAX_ATTEMPTS) \subseteq S /\ FolderHolds(S) )
       => resolver.potential_dest_path = ResolverName

\* C12: when the folder holds name.ext and name(k).ext for every k of 1..999
\* and no other name(...).ext, _get_unique_destination_path returns
\* folder/name.ext and logs a message of level warning or higher.
C12_ResolverFallbackScenario ==
    (resolver.pc = "returned" /\ FolderHolds(1..(MAX_ATTEMPTS - 1)))
    => /\ resolver.potential_dest_path = ResolverName
       /\ \E i \in DOMAIN resolver.logged :
             resolver.logged[i] \in {"warning", "error", "critical"}

\* What a dry run's log event says would happen to the file.
DryReport(tag) ==
    CASE tag = "dry_moved" -> "moved"
      [] tag = "dry_renamed" -> "renamed"
      [] tag = "skipped_identical" -> "skipped_identical"
      [] tag = "ignored" -> "ignored"
      [] OTHER -> "undecided"

\* C13: what a dry run reports for each file (moved under its name, moved
\* under a renamed unique name, skipped as an identical duplicate) and its
\* would-move and would-skip totals are what the real run on the same
\* filesystem and map does, also when source files of different subfolders
\* share a name and a category.
C13_DryRunReportAccurate ==
    (phase = "done" /\ dry_run /\ shadow.clean) =>
        /\ \A q \in DOMAIN outcome : DryReport(outcome[q]) = shadow.tag[q]
        /\ summary[1].moved = shadow.moved
        /\ summary[1].skipped = shadow.skipped

\* C14: at the end of a dry run the moved-or-renamed counter and the
\* skipped-duplicates counter are both 0, and the one reported "would be
\* considered" count is the number of scanned files with a mapped suffix,
\* whether or not a file of the same name exists at the destination.
C14_DryRunCounting ==
    (phase = "done" /\ dry_run) =>
        /\ files_moved = 0
        /\ files_skipped = 0
        /\ "considered" \in DOMAIN summary[1]
        /\ summary[1].considered =
              Cardinality({q \in DOMAIN outcome : IsMapped(q[2])})

\* C15: the category of a file depends only on its lowercased suffix and the
\* map: it is the mapped folder name exactly when the lowercased suffix is
\* not empty and is a key of the map, and the file is ignored otherwise; names
\* whose suffixes differ only in letter case are classified alike, and the
\* call changes neither the map nor the filesystem.
C15_Classification ==
    [][\A n \in ClassifyNames :
         (n \notin DOMAIN classified /\ n \in DOMAIN classified')
         => LET extension == Lower(n.ext) IN
            /\ classified'[n] =
                  IF extension # "" /\ extension \in DOMAIN extension_map
                  THEN <<extension_map[extension]>>
                  ELSE <<>>
            /\ \A m \in DOMAIN classified :
                  Lower(m.ext) = extension => classified'[m] = classified'[n]
            /\ extension_map' = extension_map
            /\ Snapshot' = Snapshot]_vars

\* The log events at which the implementation adds to a counter.
CountsAsMoved(tag) ==
    \/ tag \in {"moved", "renamed"}
    \/ impl = "core" /\ tag \in {"dry_moved", "dry_renamed"}

CountsAsSkipped(tag) ==
    \/ tag = "skipped_identical"
    \/ impl = "core" /\ tag = "move_error"

\* C16: after any sequence of organize calls on one FileOrganizer, the moved
\* and skipped counters are the counts of the most recent run alone: nothing
\* of an earlier run, real or dry, is carried over.
C16_CountersPerRun ==
    phase \in {"running", "done"} =>
        /\ files_moved =
              Cardinality({q \in DOMAIN outcome : CountsAsMoved(outcome[q])})
        /\ files_skipped =
              Cardinality({q \in DOMAIN outcome : CountsAsSkipped(outcome[q])})

C16_Witness ==
    /\ phase = "done"
    /\ Len(summary) = MaxRuns
    /\ summary[1].moved + summary[1].skipped >= 1
    /\ files_moved + files_skipped < summary[1].moved + summary[1].skipped
    /\ Tagged({"pending"}) = {}

\* The events of the session so far, and those this step adds.
Happened(e) == \E i \in DOMAIN events : events[i] = e
Added == SubSeq(events', Len(events) + 1, Len(events'))
Adds(e) == \E i \in DOMAIN Added : Added[i] = e

\* The place of the first event e, 0 when there is none.
Index(e) ==
    IF Happened(e)
    THEN CHOOSE i \in DOMAIN events :
            events[i] = e /\ \A j \in 1..(i - 1) : events[j] # e
    ELSE 0

\* C17: loading the configuration never fails: the loader returns a map
\* equal to DEFAULT_EXTENSION_MAP when the file is missing, unreadable, no
\* valid JSON or no JSON object, and the defaults overridden key by key by
\* the user's entries when it is a JSON object; the result is a fresh copy,
\* so that changing it never changes DEFAULT_EXTENSION_MAP.
C17_ConfigLoading ==
    /\ ~Happened("load_raised")
    /\ loaded # <<>> =>
          loaded[1].map =
             IF loaded[1].file.kind = "object"
             THEN Update(DEFAULT_EXTENSION_MAP, loaded[1].file.map)
             ELSE DEFAULT_EXTENSION_MAP
    /\ ~aliased
    /\ defaults = DEFAULT_EXTENSION_MAP

\* C18: the map is written to the configuration file only when it was
\* changed in the session, the run is no dry run and the answer to the save
\* prompt begins with 'y'; no save prompt is shown when the map was not
\* changed, and on a dry run, a declining answer or EOF nothing is written.
C18_SavePolicy ==
    [][/\ (config_file' # config_file \/ Adds("write") \/ Adds("write_failed"))
          => /\ map_changed
             /\ ~dry_run
             /\ Adds("save_prompt")
             /\ typed' # <<>>
             /\ FirstCharOrN(StripLower(typed'[1])) = "y"
       /\ Adds("save_prompt") => map_changed]_vars

C18_Witness ==
    /\ pc = "end"
    /\ Happened("write")
    /\ map_changed
    /\ ~dry_run
    /\ typed = <<"Yes">>
    /\ config_file = [kind |-> "object", map |-> extension_map]
    /\ extension_map # loaded[1].map

\* C19: main of cli.py loads the map, then runs the edit flow and the
\* unmapped-extension flow on it, then constructs the FileOrganizer and
\* calls organize once with the resulting map and the dry-run flag, and only
\* then saves that map if it was changed and the user confirmed; when every
\* new extension is ignored, organize gets the loaded map unchanged and
\* nothing is saved.
C19_CliOrder ==
    entry = "main" =>
        /\ phase # "new" =>
              /\ Index("load") = 1
              /\ Index("load") < Index("edit")
              /\ Index("edit") < Index("unmapped")
        /\ phase \in {"running", "done"} =>
              \A e \in DOMAIN extension_map :
                  e \in DOMAIN loaded[1].map \/ map_changed
        /\ pc = "end" =>
              /\ Len(summary) = 1
              /\ Happened("write") => (map_changed /\ ~dry_run)
              /\ ~map_changed =>
                    (extension_map = loaded[1].map /\ ~Happened("write"))

\* C20: in the unmapped-extension flow an invalid folder name (one of
\* / \ : * ? " < > | in it, or a leading or trailing dot) is never stored in
\* the map; a warning is logged and the same extension is asked again, until
\* a valid name, which is stored, or an empty line is given.
C20_InvalidNameReprompted ==
    [][(pc = "unmapped_ask" /\ typed' # <<>> /\ typed'[1] # "")
       => IF InvalidFolderName(typed'[1])
          THEN /\ extension_map' = extension_map
               /\ Adds("invalid")
               /\ pc' = "unmapped_ask"
               /\ pending' = pending
          ELSE /\ extension_map' = (Head(pending) :> typed'[1]) @@ extension_map
               /\ map_changed']_vars

\* The session is in the edit flow.
InEditFlow == pc \in {"edit_review", "edit_ext", "edit_folder"}

\* C21: the edit flow's result flag becomes true exactly at the steps that
\* modify the map. At the folder prompt 'ignore' removes the mapping and
\* another valid folder name replaces it, both setting the flag; declining
\* the review, an empty line, the same folder again, an extension that is
\* malformed or no key of the map, and EOF leave map and flag as they are.
C21_EditResultFlag ==
    [][InEditFlow =>
         /\ map_changed' = (map_changed \/ extension_map' # extension_map)
         /\ IF pc = "edit_folder" /\ typed' # <<>> /\ typed'[1] # ""
            THEN LET new_folder == typed'[1]
                     current_folder == extension_map[ext_to_modify]
                 IN IF StripLower(new_folder) = "ignore"
                    THEN /\ extension_map' = Remove(extension_map, ext_to_modify)
                         /\ map_changed'
                    ELSE IF new_folder = current_folder
                    THEN extension_map' = extension_map
                    ELSE ~InvalidFolderName(new_folder)
                         => /\ extension_map' =
                                 [extension_map EXCEPT ![ext_to_modify] = new_folder]
                            /\ map_changed'
            ELSE /\ extension_map' = extension_map
                 /\ map_changed' = map_changed]_vars

C21_Witness ==
    /\ entry \in {"handle_interactive_edit", "organize"}
    /\ pc = "edit_ext"
    /\ map_changed
    /\ typed = <<"Papers">>
    /\ ".pdf" \in DOMAIN extension_map
    /\ extension_map[".pdf"] = "Papers"
    /\ extension_map # DEFAULT_EXTENSION_MAP

\* C22: during and after a real run every file that was under the
\* destination root when the run started is at its path with its content:
\* no source file is moved onto an existing destination path, also when a
\* digest cannot be computed and when every suffixed name the resolver tries
\* is taken.
C22_NoOverwrite ==
    (phase \in {"running", "done"} /\ ~dry_run) =>
        \A t \in DOMAIN start.dest :
            t \in DOMAIN dest /\ dest[t] = start.dest[t]

\* This run has put a file at the destination path t.
PlacedAt(t) ==
    /\ t \in DOMAIN dest
    /\ t \notin DOMAIN start.dest \/ dest[t] # start.dest[t]

\* The destination paths this run has put a file at, so far.
Placed ==
    IF dest = start.dest THEN {} ELSE {t \in DOMAIN dest : PlacedAt(t)}

\* The name is the original name or one of its suffixed names.
NameOrSuffixed(n, original) ==
    /\ n.base = original.base
    /\ n.ext = original.ext
    /\ Len(n.sfx) <= 1

\* C26: after a real run, whatever failed, each file that was in the source
\* tree is in exactly one place: at its source path with its content, or, its
\* source path gone, at one path of its own under its category folder, named
\* by its name or a suffixed name, with its content; no file is at both and
\* none at neither.
C26_NoFileLostOrDuplicated ==
    (phase = "done" /\ ~dry_run) =>
        LET gone == DOMAIN start.src \ DOMAIN src IN
        /\ \A q \in DOMAIN src :
              q \in DOMAIN start.src /\ src[q] = start.src[q]
        /\ \E f \in [gone -> Placed] :
              /\ \A q, r \in gone : f[q] = f[r] => q = r
              /\ \A q \in gone :
                    /\ IsMapped(q[2])
                    /\ f[q][1] = extension_map[Lower(q[2].ext)]
                    /\ NameOrSuffixed(f[q][2], q[2])
                    /\ dest[f[q]] = start.src[q]
        /\ Cardinality(Placed) = Cardinality(gone)

\* C27: in a real run of core.py's organizer no source file is moved to a
\* path another source file was moved to in the same run; a file that finds
\* an earlier file of the run at dest_root/<category>/<name> is, when its
\* calls succeed, skipped as identical or moved to another, suffixed name.
C27_DistinctTargets ==
    [][\A p \in todo :
         (impl = "core" /\ Processes(p) /\ ~dry_run) =>
            /\ dest' # dest =>
                  \A t \in DOMAIN dest :
                      (t \in DOMAIN dest' /\ dest'[t] # dest[t]) => ~PlacedAt(t)
            /\ ( /\ IsMapped(p[2])
                 /\ PlacedAt(Candidate(p))
                 /\ Succeeded(last'.calls) )
               => \/ /\ outcome'[p] = "skipped_identical"
                     /\ dest[Candidate(p)] = src[p]
                     /\ dest' = dest
                  \/ /\ outcome'[p] = "renamed"
                     /\ \E t \in DOMAIN dest' \ DOMAIN dest :
                           /\ t # Candidate(p)
                           /\ Len(t[2].sfx) = 1
                           /\ dest' = (t :> src[p]) @@ dest]_vars

\* Two source files of one name were moved: the first under the name, the
\* second under a suffixed name.
C27_Witness ==
    /\ impl = "core"
    /\ ~dry_run
    /\ phase = "done"
    /\ src = <<>>
    /\ Cardinality(DOMAIN start.src) = 2
    /\ Tagged({"moved"}) # {}
    /\ last.path \in Tagged({"renamed"})
    /\ Succeeded(last.calls)
    /\ Cardinality(Placed) = 2
    /\ <<ResolverFolder, ResolverName>> \in Placed

\* C30: when a real run of core.py's organizer in which every call
\* succeeded is followed at once by another with the same map, the
\* destination outside the source, the later run moves no file (its moved
\* counter stays 0), leaves the filesystem as it found it, and reports as
\* skipped duplicates the number the earlier run skipped as identical.
C30_SecondRunNoOp ==
    impl = "core" =>
        LET n == Len(summary) IN
        /\ (phase = "running" /\ n >= 1) =>
              /\ files_moved = 0
              /\ Snapshot = start
        /\ (phase = "done" /\ n >= 2) =>
              /\ summary[n].moved = 0
              /\ summary[n].skipped = summary[n - 1].skipped
              /\ Snapshot = start

C30_Witness ==
    /\ impl = "core"
    /\ phase = "done"
    /\ Len(summary) = 2
    /\ summary[1].moved >= 1
    /\ summary[1].skipped >= 1
    /\ summary[2].total_scanned >= 1
    /\ summary[2].skipped = summary[1].skipped
    /\ Tagged({"skipped_identical"}) # {}

\* C25: _get_unique_destination_path(folder, name) returns folder/name when
\* that path does not exist; when it exists and the call did not give up, it
\* returns folder/stem(k)ext for the smallest k >= 1 whose path does not
\* exist, so a result that is no fallback is a path that does not exist.
C25_ResolverResult ==
    resolver.pc = "returned" =>
        IF ~DestExists(ResolverFolder, ResolverName)
        THEN resolver.potential_dest_path = ResolverName
        ELSE resolver.logged = <<>> =>
               \E k \in 1..(Cardinality(DOMAIN dest) + 1) :
                  /\ resolver.potential_dest_path = SuffixedName(ResolverName, k)
                  /\ ~DestExists(ResolverFolder, SuffixedName(ResolverName, k))
                  /\ \A j \in 1..(k - 1) :
                        DestExists(ResolverFolder, SuffixedName(ResolverName, j))

\* The folder holds the name and every suffixed name but stem(2)ext, which
\* the call returned.
C25_Witness ==
    /\ resolver.pc = "returned"
    /\ FolderHolds((1..MAX_ATTEMPTS) \ {2})
    /\ resolver.logged = <<>>
    /\ resolver.potential_dest_path = SuffixedName(ResolverName, 2)
    /\ resolver.probed = 2

\* C28: after a real run a category folder that did not exist when the run
\* started exists only if a file of the run was moved into it: an ignored
\* file, a skip, a digest error and a failed move create no folder.
C28_LazyCategoryFolders ==
    (phase = "done" /\ ~dry_run) =>
        \A c \in folders \ start.folders :
            \E q \in Tagged({"moved", "renamed"}) :
                Classify(q[2], extension_map) = <<c>>

\* C29: while organize walks the source tree the extension map does not
\* change and no line is read from the user; the map changes, and a flow
\* prompts, only before the first file is classified, so all files of a run
\* are classified against one map.
C29_MapFixedDuringTraversal ==
    [][/\ phase = "running" =>
             /\ extension_map' = extension_map
             /\ answers' = answers /\ typed' = typed
             /\ pc' = pc
       /\ (extension_map' # extension_map \/ InEditFlow \/ pc = "unmapped_ask") =>
             /\ phase \in {"new", "ready"}
             /\ total_scanned = 0
             /\ Tagged({"pending"}) = DOMAIN outcome]_vars

\* A session of organizer_old.py in which the user mapped .xyz and the run
\* then moved a file of that suffix.
C29_Witness ==
    /\ entry = "organize"
    /\ phase = "done"
    /\ map_changed
    /\ ".xyz" \in DOMAIN extension_map
    /\ \E q \in Tagged({"moved", "dry_moved"}) : Lower(q[2].ext) = ".xyz"

\* This step processes the mapped file at p, which was removed after the
\* walk had yielded it: it is gone from the source and was not moved.
VanishedAt(p) ==
    /\ Processes(p)
    /\ IsMapped(p[2])
    /\ p \notin DOMAIN src'
    /\ outcome'[p] \notin {"moved", "renamed"}

\* C24: in a real run, a source file removed by another process after the
\* walk yielded it is logged as an error and skipped: the destination tree
\* stays as it is, neither the moved nor the identical-duplicate counter
\* changes, and the run goes on.
C24_VanishingSourceFile ==
    [][\A p \in todo :
         (VanishedAt(p) /\ ~dry_run) =>
            /\ outcome'[p] \in {"hash_error", "move_error"}
            /\ dest' = dest
            /\ files_moved' = files_moved
            /\ files_skipped' = files_skipped
            /\ phase' = "running"]_vars

\* The regular files under source_dir when the run started: those of the
\* source tree and, dest_dir lying inside source_dir, those of dest_dir.
FilesAtStart ==
    Cardinality(DOMAIN start.src)
        + (IF walk.nested THEN Cardinality(DOMAIN start.dest) ELSE 0)

\* C23: within a run no file is yielded by the walk again after the run has
\* moved it, so that no file is counted as scanned twice or moved twice,
\* also when dest_dir lies inside source_dir.
C23_NoDoubleProcessing ==
    phase \in {"running", "done"} =>
        /\ walk.revisited = {}
        /\ total_scanned <= FilesAtStart
        /\ files_moved <= FilesAtStart

====
